---- MODULE Spec2Model ----
(***************************************************************************)
(* Settings cache and startup hydration of CustomBot                       *)
(* (voxelbotutils/cogs/utils/custom_bot.py).                               *)
(*                                                                         *)
(* Python dictionaries are objects: guild_settings maps an entity ID to a  *)
(* reference, and heap maps every live reference to the dictionary it      *)
(* holds, so that copy.deepcopy and sharing are different things.          *)
(***************************************************************************)
EXTENDS Integers, Sequences, FiniteSets, TLC

\* ------------------------------------------------------------------ bounds
MaxGuildId == 2     \* guilds of incoming messages are 1..MaxGuildId
MaxMessages == 1    \* messages dispatched in one run
MaxCogs == 2        \* registered extensions
MaxListLen == 4     \* elements a list-valued prefix grows to
MaxShards == 3      \* self.shard_count is at most this

GuildIds == 1..MaxGuildId
UserIds == {1}      \* authors of incoming messages
RowIds == {0, 1}    \* primary keys the tables may hold; 0 is the sentinel row
NoGuild == -1       \* message.guild is None (a DM)
Commands == {"get_guild", "set_guild", "get_user", "set_user"}

Prefixes == {"!", "?"}
ListPrefixes == {"!", "hey"}    \* the elements a list-valued prefix starts from
Locales == {"en", "fr"}

\* the values a column of the database holds
StoredLocales == {"en"}
ColumnValues(c) == IF c = "prefix" THEN Prefixes ELSE StoredLocales

\* column sets a table may have; the first column is the primary key
GuildSchemas == {{"guild_id", "prefix"}, {"guild_id", "locale"}}
UserSchemas == {{"user_id", "locale"}}

\* every table with primary key idcol and the given columns: ID -> row, each row
\* a record over all the columns (SELECT * returns every column of a row)
Tables(idcol, cols) ==
    UNION {{[i \in ids |-> (idcol :> i) @@ f[i]] :
              f \in [ids -> {r \in [cols \ {idcol} -> Prefixes \cup Locales] :
                                \A c \in DOMAIN r : r[c] \in ColumnValues(c)}]} :
           ids \in SUBSET RowIds}

\* ------------------------------------------------------------------- state
VARIABLES
    config,                  \* self.config
    config_file,             \* what the file at self.config_file parses to
    started,                 \* start() was called
    heap,                    \* reference -> dictionary
    guild_settings,          \* entity ID -> reference (the defaultdict)
    user_settings,
    schema,                  \* the columns of the two tables
    db,                      \* the rows of the two tables, by primary key
    conn,                    \* the connection of _startup: none, open, closed
    pc,                      \* position of the startup task
    steps,                   \* the steps _startup has executed, in order
    cog_i,                   \* cache_setup callbacks completed
    called,                  \* the extensions whose cache_setup was awaited, in order
    ncogs,                   \* len(self.cogs) when _startup iterates it
    ready,                   \* the platform session reported ready
    logged,                  \* log entries at error severity or above
    exit_code,               \* -1 while the process runs
    msg,                     \* the message being dispatched and where invoke() is
    nmsgs,                   \* messages dispatched so far
    shards,                  \* self.shard_count and self.shard_ids
    presence,                \* shard ID -> the presence that shard shows
    sdp,                     \* the running call of set_default_presence
    button,                  \* the call of add_delete_button and what it did
    runs                     \* the completed calls of startup() and what the first left

vars == <<config, config_file, started, heap, guild_settings, user_settings, schema, db,
          conn, pc, steps, cog_i, called, ncogs, ready, logged, exit_code, msg, nmsgs,
          shards, presence, sdp, button, runs>>

\* what neither start(), the startup task nor the dispatch of a message assigns
static == <<config, config_file, schema, shards, presence, sdp, button, runs>>

\* what set_default_presence and add_delete_button leave alone
settings == <<config, config_file, schema, started, heap, guild_settings, user_settings,
              db, conn, pc, steps, cog_i, called, ncogs, ready, logged, exit_code, msg,
              nmsgs, runs>>

\* ------------------------------------------------------------ dictionaries
EmptyDict == [k \in {} |-> k]

\* d[k] = v
SetItem(d, k, v) == [x \in DOMAIN d \cup {k} |-> IF x = k THEN v ELSE d[x]]

\* SetDefaults with a fault: d.update(row), the row's values win
SetDefaultsOverwriting(d, row) ==
    [k \in DOMAIN d \cup DOMAIN row |-> IF k \in DOMAIN row THEN row[k] ELSE d[k]]

\* for i, o in row.items(): d.setdefault(i, o)
SetDefaults(d, row) ==
    [k \in DOMAIN d \cup DOMAIN row |-> IF k \in DOMAIN d THEN d[k] ELSE row[k]]

\* SetItems with a fault: d.setdefault(key, value), values already there win
SetItemsKeepingExisting(d, row) ==
    [k \in DOMAIN d \cup DOMAIN row |-> IF k \in DOMAIN d THEN d[k] ELSE row[k]]

\* SetItems with a fault: the entry is replaced by the row, other keys are dropped
SetItemsReplacing(d, row) == row

\* for key, value in row.items(): d[key] = value
SetItems(d, row) ==
    [k \in DOMAIN d \cup DOMAIN row |-> IF k \in DOMAIN row THEN row[k] ELSE d[k]]

\* --------------------------------------------------------------- references
DefaultGuildRef == <<"DEFAULT_GUILD_SETTINGS", 0>>
DefaultUserRef == <<"DEFAULT_USER_SETTINGS", 0>>
DefaultRef(table) == IF table = "guild_settings" THEN DefaultGuildRef ELSE DefaultUserRef

\* the dictionaries the two Default attributes hold
DEFAULT_GUILD_SETTINGS == heap[DefaultGuildRef]
DEFAULT_USER_SETTINGS == heap[DefaultUserRef]

\* config['default_prefix'] when it is a list: __init__ stores that very object as
\* DEFAULT_GUILD_SETTINGS['prefix'], and heap maps it to the list's elements
ConfigPrefixRef == <<"config.default_prefix", 0>>

\* the configured prefix is a list, so that every stored 'prefix' is a list object
ListMode(h) == ConfigPrefixRef \in DOMAIN h

\* the list object that the dictionary at reference ref owns under 'prefix'
PrefixListRef(ref) == <<"guild_settings.prefix", ref[2]>>

\* what a dictionary says, its list objects replaced by their elements
Deep(h, ref) ==
    [k \in DOMAIN h[ref] |-> IF ListMode(h) /\ k = "prefix" THEN h[h[ref][k]]
                              ELSE h[ref][k]]

\* copy.deepcopy(d): the copy going to reference fresh, a list under 'prefix' is
\* copied into a list object of its own
deepcopy(h, d, fresh) ==
    IF ListMode(h) /\ "prefix" \in DOMAIN d
    THEN [dict |-> [d EXCEPT !["prefix"] = PrefixListRef(fresh)],
          heap |-> (PrefixListRef(fresh) :> h[d["prefix"]]) @@ h]
    ELSE [dict |-> d, heap |-> h]

\* default_factory with a fault: lambda: copy.copy(self.DEFAULT_..._SETTINGS), a
\* new dictionary whose values are the Default's own objects
default_factory_shallow(h, table, fresh) ==
    [ref |-> fresh, heap |-> (fresh :> h[DefaultRef(table)]) @@ h]

\* default_factory with a fault: lambda: self.DEFAULT_..._SETTINGS, no copy is made
\* and the entry is the Default object itself
default_factory_shared(h, table, fresh) ==
    [ref |-> DefaultRef(table), heap |-> h]

\* lambda: copy.deepcopy(self.DEFAULT_..._SETTINGS): a new object, at reference
\* fresh, holding a copy of the Default dictionary
default_factory(h, table, fresh) ==
    LET copy == deepcopy(h, h[DefaultRef(table)], fresh)
    IN  [ref |-> fresh, heap |-> (fresh :> copy.dict) @@ copy.heap]

\* defaultdict.__getitem__: the stored entry, or on a missing key the factory's
\* object, inserted
GetItem(cache, h, table, i) ==
    IF i \in DOMAIN cache
    THEN [cache |-> cache, heap |-> h]
    ELSE LET made == default_factory(h, table, <<table, i>>)
         IN  [cache |-> (i :> made.ref) @@ cache, heap |-> made.heap]

\* self.<table>[i][k] = v
SetEntryItem(cache, h, table, i, k, v) ==
    LET got == GetItem(cache, h, table, i)
    IN  [cache |-> got.cache,
         heap |-> [got.heap EXCEPT ![got.cache[i]] = SetItem(@, k, v)]]

Min(S) == CHOOSE x \in S : \A y \in S : x <= y

\* HydrateRows with a fault: the loop is suspended after its first row (an await
\* in its body), the other rows are not applied yet when other tasks run
HydrateRowsSuspended(cache, h, table, data, ids) ==
    IF ids = {} THEN [cache |-> cache, heap |-> h]
    ELSE LET i == CHOOSE x \in ids : \A y \in ids : x <= y
             got == IF i \in DOMAIN cache THEN [cache |-> cache, heap |-> h]
                    ELSE [cache |-> (i :> <<table, i>>) @@ cache,
                          heap |-> (<<table, i>> :> h[DefaultRef(table)]) @@ h]
         IN  [cache |-> got.cache,
              heap |-> [got.heap EXCEPT ![got.cache[i]] =
                           [k \in DOMAIN @ \cup DOMAIN data[i] |->
                               IF k \in DOMAIN data[i] THEN data[i][k] ELSE @[k]]]]

\* for row in data: for key, value in row.items(): self.<table>[row[id]][key] = value
RECURSIVE HydrateRows(_, _, _, _, _)
HydrateRows(cache, h, table, data, ids) ==
    IF ids = {} THEN [cache |-> cache, heap |-> h]
    ELSE LET i == Min(ids)
             got == GetItem(cache, h, table, i)
             h2 == [got.heap EXCEPT ![got.cache[i]] = SetItems(@, data[i])]
         IN  HydrateRows(got.cache, h2, table, data, ids \ {i})

\* dict.clear() of both caches: the entries' objects are no longer referenced
ClearedHeap(h) ==
    [r \in DOMAIN h \cap {DefaultGuildRef, DefaultUserRef, ConfigPrefixRef} |-> h[r]]

\* ----------------------------------------------------------------- presence
NoShard == -1       \* shard_id is None; an activity name without a shard suffix

\* what a shard shows before any change_presence
NoPresence == [text |-> "", shard |-> NoShard, type |-> "", status |-> ""]

\* no call of set_default_presence is running
NoCall == [pc |-> "idle", shard_id |-> NoShard, i |-> 0, max |-> 0, changes |-> <<>>]

\* a bot of one shard on which set_default_presence has not been called
Unsharded ==
    /\ shards = [count |-> 1, ids |-> <<0>>]
    /\ presence = [s \in {0} |-> NoPresence]
    /\ sdp = NoCall

\* ------------------------------------------------------------ delete button
NoMessages == {}

\* a reaction_add event no check has seen yet
NoReaction ==
    [same_message |-> FALSE, bot |-> FALSE, member |-> FALSE, roles |-> FALSE,
     wastebasket |-> FALSE, user |-> 0, manage_messages |-> FALSE]

\* delete=None
DeleteNone == [none |-> TRUE, ids |-> NoMessages]

\* add_delete_button has not been called
NoButton ==
    [pc |-> "idle", wait |-> TRUE, dm |-> FALSE, valid_users |-> {}, delete |-> DeleteNone,
     returned |-> FALSE, added |-> FALSE, own_reaction |-> FALSE, timed_out |-> FALSE,
     remove_failed |-> FALSE, seen |-> NoReaction, accepted |-> FALSE,
     deleted |-> NoMessages]

\* ------------------------------------------------------- calls of startup()
\* what the caches and the Default mappings say, lists replaced by their elements
DeepCache(h, cache) == [i \in DOMAIN cache |-> Deep(h, cache[i])]

\* no call of startup() has completed
NoRuns ==
    [n |-> 0, at |-> 0, quiet |-> TRUE,
     guild_settings |-> EmptyDict, user_settings |-> EmptyDict,
     default_guild |-> EmptyDict, default_user |-> EmptyDict]

\* a call of startup() returns: the first leaves what it made of the caches and
\* the Default mappings; quiet says that no message was dispatched and no command
\* ran while any of the calls so far was in progress
Completed(r, h, guilds, users, dispatched, idle) ==
    IF r.n = 0
    THEN [n |-> 1, at |-> r.at, quiet |-> r.quiet /\ dispatched = r.at /\ idle,
          guild_settings |-> DeepCache(h, guilds),
          user_settings |-> DeepCache(h, users),
          default_guild |-> Deep(h, DefaultGuildRef),
          default_user |-> Deep(h, DefaultUserRef)]
    ELSE [r EXCEPT !.n = @ + 1, !.quiet = @ /\ dispatched = r.at /\ idle]

\* --------------------------------------------------------------------- Init
Idle == [pc |-> "idle", guild |-> NoGuild, user |-> 0, command |-> "none"]

Init ==
    /\ config \in [default_prefix : Prefixes, database_enabled : BOOLEAN]
    /\ config_file = config
    /\ started = FALSE
    /\ heap = (DefaultGuildRef :> ("prefix" :> config.default_prefix))
              @@ (DefaultUserRef :> EmptyDict)
    /\ guild_settings = EmptyDict
    /\ user_settings = EmptyDict
    /\ schema \in [guild_settings : GuildSchemas, user_settings : UserSchemas]
    /\ db \in [guild_settings : Tables("guild_id", schema.guild_settings),
               user_settings : Tables("user_id", schema.user_settings)]
    /\ conn = "none"
    /\ pc = "none"
    /\ steps = <<>>
    /\ cog_i = 0
    /\ called = <<>>
    /\ ncogs = 0
    /\ ready = FALSE
    /\ logged = <<>>
    /\ exit_code = -1
    /\ msg = Idle
    /\ nmsgs = 0
    /\ Unsharded
    /\ button = NoButton
    /\ runs = NoRuns

\* -------------------------------------------------------------------- start
\* if self.config['database']['enabled']:
\*     self.startup_method = self.loop.create_task(self.startup())
startup_method(enabled) == IF enabled THEN "created" ELSE "none"

\* start(): the startup task is created only when the database is enabled
Start ==
    /\ ~started /\ exit_code = -1
    /\ started' = TRUE
    /\ pc' = startup_method(config.database_enabled)
    /\ UNCHANGED <<static, heap, guild_settings, user_settings, db, conn, steps,
                   cog_i, called, ncogs, ready, logged, exit_code, msg, nmsgs>>

\* the platform session completes its handshake
PlatformReady ==
    /\ started /\ ~ready /\ exit_code = -1
    /\ ready' = TRUE
    /\ UNCHANGED <<static, started, heap, guild_settings, user_settings, db, conn,
                   pc, steps, cog_i, called, ncogs, logged, exit_code, msg, nmsgs>>

\* ----------------------------------------------------------------- startup
Running(at) == exit_code = -1 /\ pc = at

\* startup(): except Exception as e: self.logger.error(e); exit(1)
StartupError ==
    /\ logged' = Append(logged, "error")
    /\ exit_code' = 1
    /\ pc' = "exited"

\* _run_sql_exit_on_error(): self.logger.critical(...); exit(1)
SqlExit ==
    /\ logged' = Append(logged, "critical")
    /\ exit_code' = 1
    /\ pc' = "exited"

\* AwaitAfter with a fault: the guild rows are selected before the guild Defaults
AwaitAfterRowsFirst(step) ==
    CASE step = "clear" -> "get_connection"
      [] step = "get_connection" -> "guild_rows"
      [] step = "guild_rows" -> "guild_default_select"
      [] step = "guild_defaults" -> "user_default_select"
      [] step = "user_defaults" -> "user_rows"
      [] step = "user_rows" -> "cache_setup"
      [] step = "cache_setup" -> "wait_until_ready"
      [] step = "wait_until_ready" -> "disconnect"
      [] step = "disconnect" -> "done"

\* the order of _startup: what is awaited once a step has completed
AwaitAfter(step) ==
    CASE step = "clear" -> "get_connection"
      [] step = "get_connection" -> "guild_default_select"
      [] step = "guild_defaults" -> "guild_rows"
      [] step = "guild_rows" -> "user_default_select"
      [] step = "user_defaults" -> "user_rows"
      [] step = "user_rows" -> "cache_setup"
      [] step = "cache_setup" -> "wait_until_ready"
      [] step = "wait_until_ready" -> "disconnect"
      [] step = "disconnect" -> "done"

\* the task's first run: both caches are cleared, get_connection() is awaited
ClearCaches ==
    /\ Running("created")
    /\ guild_settings' = EmptyDict
    /\ user_settings' = EmptyDict
    /\ heap' = ClearedHeap(heap)
    /\ steps' = Append(steps, "clear")
    /\ pc' = AwaitAfter("clear")
    /\ UNCHANGED <<static, started, db, conn, cog_i, called, ncogs, ready, logged,
                   exit_code, msg, nmsgs>>

\* db = await self.database.get_connection()
GetConnection ==
    /\ Running("get_connection")
    /\ \/ /\ conn' = "open"
          /\ steps' = Append(steps, "get_connection")
          /\ pc' = AwaitAfter("get_connection")
          /\ UNCHANGED <<logged, exit_code>>
       \/ /\ StartupError
          /\ UNCHANGED <<conn, steps>>
    /\ UNCHANGED <<static, started, heap, guild_settings, user_settings, db, cog_i, called,
                   ncogs, ready, msg, nmsgs>>

\* for i, o in default_..._settings[0].items(): self.DEFAULT_..._SETTINGS.setdefault(i, o)
HydrateDefaults(h, table, row) ==
    [h EXCEPT ![DefaultRef(table)] = SetDefaults(@, row)]

\* await db("SELECT * FROM guild_settings WHERE guild_id=0"); with a row, the
\* Default dictionary is hydrated and the bulk select awaited
GuildDefaultSelect ==
    /\ Running("guild_default_select")
    /\ \/ /\ 0 \in DOMAIN db.guild_settings
          /\ heap' = HydrateDefaults(heap, "guild_settings", db.guild_settings[0])
          /\ steps' = Append(steps, "guild_defaults")
          /\ pc' = AwaitAfter("guild_defaults")
          /\ UNCHANGED <<logged, exit_code>>
       \/ /\ 0 \notin DOMAIN db.guild_settings
          /\ pc' = "guild_default_insert"
          /\ UNCHANGED <<heap, steps, logged, exit_code>>
       \/ /\ StartupError
          /\ UNCHANGED <<heap, steps>>
    /\ UNCHANGED <<static, started, guild_settings, user_settings, db, conn, cog_i, called,
                   ncogs, ready, msg, nmsgs>>

\* the row INSERT INTO <table> (<idcol>) VALUES (0) RETURNING * gives: the columns
\* of the table at the values the schema defaults them to
InsertedRows(cols, idcol) ==
    {(idcol :> 0) @@ r : r \in {x \in [cols \ {idcol} -> Prefixes \cup Locales] :
                                  \A c \in DOMAIN x : x[c] \in ColumnValues(c)}}

\* await db("INSERT INTO guild_settings (guild_id) VALUES (0) RETURNING *")
GuildDefaultInsert ==
    /\ Running("guild_default_insert")
    /\ \/ \E row \in InsertedRows(schema.guild_settings, "guild_id") :
             /\ db' = [db EXCEPT !.guild_settings = (0 :> row) @@ @]
             /\ heap' = HydrateDefaults(heap, "guild_settings", row)
             /\ steps' = Append(steps, "guild_defaults")
             /\ pc' = AwaitAfter("guild_defaults")
             /\ UNCHANGED <<logged, exit_code>>
       \/ /\ StartupError
          /\ UNCHANGED <<db, heap, steps>>
    /\ UNCHANGED <<static, started, guild_settings, user_settings, conn, cog_i, called,
                   ncogs, ready, msg, nmsgs>>

\* _get_all_table_data(): "SELECT * FROM {0}".format(table_name), every row of
\* the table
get_all_table_data(table) == table

\* data = await self._get_all_table_data(db, "guild_settings") and the loop over it
GuildRows ==
    /\ Running("guild_rows")
    /\ \/ LET data == get_all_table_data(db.guild_settings)
              new == HydrateRows(guild_settings, heap, "guild_settings", data, DOMAIN data)
          IN  /\ guild_settings' = new.cache
              /\ heap' = new.heap
              /\ steps' = Append(steps, "guild_rows")
              /\ pc' = AwaitAfter("guild_rows")
              /\ UNCHANGED <<logged, exit_code>>
       \/ /\ SqlExit
          /\ UNCHANGED <<guild_settings, heap, steps>>
    /\ UNCHANGED <<static, started, user_settings, db, conn, cog_i, called, ncogs, ready,
                   msg, nmsgs>>

\* await db("SELECT * FROM user_settings WHERE user_id=0")
UserDefaultSelect ==
    /\ Running("user_default_select")
    /\ \/ /\ 0 \in DOMAIN db.user_settings
          /\ heap' = HydrateDefaults(heap, "user_settings", db.user_settings[0])
          /\ steps' = Append(steps, "user_defaults")
          /\ pc' = AwaitAfter("user_defaults")
          /\ UNCHANGED <<logged, exit_code>>
       \/ /\ 0 \notin DOMAIN db.user_settings
          /\ pc' = "user_default_insert"
          /\ UNCHANGED <<heap, steps, logged, exit_code>>
       \/ /\ StartupError
          /\ UNCHANGED <<heap, steps>>
    /\ UNCHANGED <<static, started, guild_settings, user_settings, db, conn, cog_i, called,
                   ncogs, ready, msg, nmsgs>>

\* await db("INSERT INTO user_settings (user_id) VALUES (0) RETURNING *")
UserDefaultInsert ==
    /\ Running("user_default_insert")
    /\ \/ \E row \in InsertedRows(schema.user_settings, "user_id") :
             /\ db' = [db EXCEPT !.user_settings = (0 :> row) @@ @]
             /\ heap' = HydrateDefaults(heap, "user_settings", row)
             /\ steps' = Append(steps, "user_defaults")
             /\ pc' = AwaitAfter("user_defaults")
             /\ UNCHANGED <<logged, exit_code>>
       \/ /\ StartupError
          /\ UNCHANGED <<db, heap, steps>>
    /\ UNCHANGED <<static, started, guild_settings, user_settings, conn, cog_i, called,
                   ncogs, ready, msg, nmsgs>>

\* data = await self._get_all_table_data(db, "user_settings") and the loop over it
UserRows ==
    /\ Running("user_rows")
    /\ \/ LET data == get_all_table_data(db.user_settings)
              new == HydrateRows(user_settings, heap, "user_settings", data, DOMAIN data)
          IN  /\ user_settings' = new.cache
              /\ heap' = new.heap
              /\ steps' = Append(steps, "user_rows")
              /\ \E n \in 0..MaxCogs :          \* for cog_name, cog in self.cogs.items()
                    /\ ncogs' = n
                    /\ pc' = IF n = 0 THEN AwaitAfter("cache_setup")
                             ELSE AwaitAfter("user_rows")
              /\ UNCHANGED <<logged, exit_code>>
       \/ /\ SqlExit
          /\ UNCHANGED <<user_settings, heap, steps, ncogs>>
    /\ UNCHANGED <<static, started, guild_settings, db, conn, cog_i, called, ready,
                   msg, nmsgs>>

\* self.cogs.items() with a fault: reversed(self.cogs.items())
CogAtReversed(k, n) == n + 1 - k

\* the k-th item of self.cogs.items(), extensions numbered 1..n as they were
\* registered: a dict iterates in insertion order
CogAt(k, n) == k

\* await getattr(cog, "cache_setup", fake_cache_setup_method)(db)
CacheSetup ==
    /\ Running("cache_setup")
    /\ \/ /\ cog_i' = cog_i + 1
          /\ called' = Append(called, CogAt(cog_i + 1, ncogs))
          /\ steps' = Append(steps, "cache_setup")
          /\ pc' = IF cog_i + 1 < ncogs THEN "cache_setup"
                   ELSE AwaitAfter("cache_setup")
          /\ UNCHANGED <<logged, exit_code>>
       \/ /\ StartupError
          /\ UNCHANGED <<cog_i, called, steps>>
    /\ UNCHANGED <<static, started, heap, guild_settings, user_settings, db, conn,
                   ncogs, ready, msg, nmsgs>>

\* wait_until_ready with a fault: it returns without waiting for the ready event
wait_until_ready_at_once(r) == TRUE

\* await self.wait_until_ready(): it returns when the ready event is set
wait_until_ready(r) == r

\* await self.wait_until_ready() returns once the platform is ready
WaitUntilReady ==
    /\ Running("wait_until_ready")
    /\ wait_until_ready(ready)
    /\ steps' = Append(steps, "wait_until_ready")
    /\ pc' = AwaitAfter("wait_until_ready")
    /\ UNCHANGED <<static, started, heap, guild_settings, user_settings, db, conn,
                   cog_i, called, ncogs, ready, logged, exit_code, msg, nmsgs>>

\* await db.disconnect(), after which _startup and startup() return
Disconnect ==
    /\ Running("disconnect")
    /\ conn' = "closed"
    /\ steps' = Append(steps, "disconnect")
    /\ pc' = AwaitAfter("disconnect")
    /\ runs' = Completed(runs, heap, guild_settings, user_settings, nmsgs, msg = Idle)
    /\ UNCHANGED <<config, config_file, schema, shards, presence, sdp, button, started,
                   heap, guild_settings, user_settings, db, cog_i, called, ncogs, ready,
                   logged, exit_code, msg, nmsgs>>

\* await bot.startup() once more, after the task start() created has finished:
\* _startup runs again from its first statement
startup ==
    /\ Running("done") /\ runs.n = 1
    /\ pc' = "created"
    /\ steps' = <<>>
    /\ cog_i' = 0
    /\ called' = <<>>
    /\ runs' = [runs EXCEPT !.at = nmsgs, !.quiet = @ /\ msg = Idle]
    /\ UNCHANGED <<config, config_file, schema, shards, presence, sdp, button, started,
                   heap, guild_settings, user_settings, db, conn, ncogs, ready, logged,
                   exit_code, msg, nmsgs>>

\* ----------------------------------------------------------------- dispatch
Dispatching(at) == started /\ exit_code = -1 /\ msg.pc = at

\* str.title() on the strings a prefix list holds
Title(s) ==
    CASE s \in {"hey", "Hey"} -> "Hey"
      [] s \in {"hey ", "Hey "} -> "Hey "
      [] OTHER -> s

\* any([o in i for o in string.punctuation])
HasPunctuation(s) == s \in {"!", "?"}

\* str.strip()
Strip(s) ==
    CASE s = "hey " -> "hey"
      [] s = "Hey " -> "Hey"
      [] OTHER -> s

\* "{i.strip()} ": the word followed by one space
WithSpace(s) ==
    CASE s = "hey" -> "hey "
      [] s = "Hey" -> "Hey "
      [] OTHER -> s

\* possible_word_prefixes = [i for i in prefix if not any(...)]
RECURSIVE possible_word_prefixes(_)
possible_word_prefixes(l) ==
    IF l = <<>> THEN <<>>
    ELSE (IF HasPunctuation(Head(l)) THEN <<>> ELSE <<Head(l)>>)
         \o possible_word_prefixes(Tail(l))

\* prefix.extend([i.title() for i in prefix]) and then
\* prefix.extend([f"{i.strip()} " for i in possible_word_prefixes]), both in place
Extended(l) ==
    LET titled == l \o [n \in 1..Len(l) |-> Title(l[n])]
        words == possible_word_prefixes(titled)
    IN  titled \o [n \in 1..Len(words) |-> WithSpace(Strip(words[n]))]

\* get_prefix(): bot.guild_settings[message.guild.id]['prefix'] reads the entry
\* of the message's guild, which materializes it; a DM reads config only. A
\* prefix that is a str is wrapped in a new list; one that is a list is the
\* stored object itself (the entry's, or config's when the entry's is empty),
\* and the two extend calls change it
get_prefix(cache, h, g) ==
    LET got == IF g = NoGuild THEN [cache |-> cache, heap |-> h]
               ELSE GetItem(cache, h, "guild_settings", g)
        own == got.heap[got.cache[g]]["prefix"]
        prefix == IF g = NoGuild \/ got.heap[own] = <<>> THEN ConfigPrefixRef ELSE own
    IN  IF ListMode(h)
        THEN [cache |-> got.cache, heap |-> [got.heap EXCEPT ![prefix] = Extended(@)]]
        ELSE got

\* the list get_prefix() hands to commands.when_mentioned_or: a str prefix (the
\* entry's, or config's for a DM) in a new one-element list, a list prefix the
\* stored object itself, after the two extend calls
prefix_list(cache, h, g) ==
    IF ListMode(h)
    THEN LET got == get_prefix(cache, h, g)
             own == got.heap[got.cache[g]]["prefix"]
         IN  IF g = NoGuild \/ got.heap[own] = <<>> THEN got.heap[ConfigPrefixRef]
             ELSE got.heap[own]
    ELSE LET got == get_prefix(cache, h, g)
         IN  Extended(<<IF g = NoGuild THEN config.default_prefix
                        ELSE got.heap[got.cache[g]]["prefix"]>>)

\* no list has grown beyond the bound
ListsBounded(h) ==
    \A r \in DOMAIN h \cap ({ConfigPrefixRef}
                             \cup {PrefixListRef(<<"guild_settings", i>>) :
                                      i \in GuildIds \cup RowIds}) :
        Len(h[r]) <= MaxListLen

\* a message arrives: get_context() resolves the prefix, then invoke(ctx) returns
\* at once for no command, or runs up to its first await (the stats session)
OnMessage ==
    /\ started /\ exit_code = -1 /\ msg.pc \in {"idle", "raised"}
    /\ nmsgs < MaxMessages
    /\ nmsgs' = nmsgs + 1
    /\ \E g \in GuildIds \cup {NoGuild}, u \in UserIds :
          LET got == get_prefix(guild_settings, heap, g)
          IN  /\ ListsBounded(got.heap)
              /\ guild_settings' = got.cache
              /\ heap' = got.heap
              /\ \/ msg' = Idle                 \* ctx.command is None
                 \/ \E c \in Commands :
                       msg' = [pc |-> "stats", guild |-> g, user |-> u, command |-> c]
    /\ UNCHANGED <<static, started, user_settings, db, conn, pc, steps,
                   cog_i, called, ncogs, ready, logged, exit_code>>

\* async with self.stats() as stats: stats.increment(...): entering the session,
\* the increment or leaving the session raises, and invoke() has no handler; or
\* none does and super().invoke(ctx) is awaited
EmitStats ==
    /\ Dispatching("stats")
    /\ \/ \E failing \in {"enter", "increment", "exit"} :
             msg' = [Idle EXCEPT !.pc = "raised"]
       \/ msg' = [msg EXCEPT !.pc = "command"]
    /\ UNCHANGED <<static, started, heap, guild_settings, user_settings, db,
                   conn, pc, steps, cog_i, called, ncogs, ready, logged, exit_code, nmsgs>>

\* self.guild_settings[g]['prefix'] = v, or = [v] where prefixes are lists: the
\* entry gets a new list object
SetPrefix(cache, h, g, v) ==
    IF ListMode(h)
    THEN LET ref == PrefixListRef(<<"guild_settings", g>>)
             new == SetEntryItem(cache, h, "guild_settings", g, "prefix", ref)
         IN  [cache |-> new.cache, heap |-> (ref :> <<v>>) @@ new.heap]
    ELSE SetEntryItem(cache, h, "guild_settings", g, "prefix", v)

\* what a command does to the settings cache: it reads or writes the entry of
\* the context's guild or author (a guild command does nothing in a DM)
CommandBody(g, u, command) ==
    \/ /\ command = "get_guild" /\ g # NoGuild
       /\ LET got == GetItem(guild_settings, heap, "guild_settings", g)
          IN  guild_settings' = got.cache /\ heap' = got.heap
       /\ UNCHANGED user_settings
    \/ /\ command = "set_guild" /\ g # NoGuild
       /\ \E v \in Prefixes :
             LET new == SetPrefix(guild_settings, heap, g, v)
             IN  guild_settings' = new.cache /\ heap' = new.heap
       /\ UNCHANGED user_settings
    \/ /\ command = "get_user"
       /\ LET got == GetItem(user_settings, heap, "user_settings", u)
          IN  user_settings' = got.cache /\ heap' = got.heap
       /\ UNCHANGED guild_settings
    \/ /\ command = "set_user"
       /\ \E v \in Locales :
             LET new == SetEntryItem(user_settings, heap, "user_settings", u, "locale", v)
             IN  user_settings' = new.cache /\ heap' = new.heap
       /\ UNCHANGED guild_settings
    \/ /\ command \in {"get_guild", "set_guild"} /\ g = NoGuild
       /\ UNCHANGED <<guild_settings, user_settings, heap>>

\* return await super().invoke(ctx): the command runs
Command ==
    /\ Dispatching("command")
    /\ CommandBody(msg.guild, msg.user, msg.command)
    /\ msg' = Idle
    /\ UNCHANGED <<static, started, db, conn, pc, steps, cog_i, called, ncogs, ready,
                   logged, exit_code, nmsgs>>

\* --------------------------------------------------------------------- Next
Next ==
    \/ Start
    \/ PlatformReady
    \/ ClearCaches
    \/ GetConnection
    \/ GuildDefaultSelect
    \/ GuildDefaultInsert
    \/ GuildRows
    \/ UserDefaultSelect
    \/ UserDefaultInsert
    \/ UserRows
    \/ CacheSetup
    \/ WaitUntilReady
    \/ Disconnect
    \/ OnMessage
    \/ EmitStats
    \/ Command

Spec == Init /\ [][Next]_vars

\* ----------------------------------------------------------------- fairness
\* a run with the database enabled, against a guild_settings table with a prefix
\* column and a row of guild 1, and a user_settings table that holds no rows
FairInit ==
    /\ Init
    /\ config.database_enabled
    /\ config.default_prefix = "!"
    /\ schema.guild_settings = {"guild_id", "prefix"}
    /\ 1 \in DOMAIN db.guild_settings
    /\ DOMAIN db.user_settings = {}

\* the event loop resumes the startup task whenever what it awaits has completed
\* (a database operation or a callback returns or raises; the ready event, once
\* set, stays set), start() is called, and the platform session gets ready
FairSpec ==
    /\ FairInit /\ [][Next]_vars
    /\ WF_vars(Start) /\ WF_vars(PlatformReady)
    /\ WF_vars(ClearCaches) /\ WF_vars(GetConnection)
    /\ WF_vars(GuildDefaultSelect) /\ WF_vars(GuildDefaultInsert) /\ WF_vars(GuildRows)
    /\ WF_vars(UserDefaultSelect) /\ WF_vars(UserDefaultInsert) /\ WF_vars(UserRows)
    /\ WF_vars(CacheSetup) /\ WF_vars(WaitUntilReady) /\ WF_vars(Disconnect)

\* ------------------------------------------------------------ reload_config
\* the mappings toml.load may return: the two keys the bot reads, with or without
\* one more
ConfigFiles ==
    [default_prefix : Prefixes, database_enabled : {TRUE}]
    \cup [default_prefix : {"!"}, database_enabled : {TRUE}, token : {"t"}]

\* the file at self.config_file is edited
EditConfigFile ==
    /\ exit_code = -1
    /\ config_file' \in ConfigFiles \ {config_file}
    /\ UNCHANGED <<config, schema, started, heap, guild_settings, user_settings, db, conn,
                   pc, steps, cog_i, called, ncogs, ready, logged, exit_code, msg, nmsgs,
                   shards, presence, sdp, button, runs>>

\* self.config = toml.load(a) with a fault: self.config.update(toml.load(a))
LoadedConfigMerged(old, parsed) ==
    [k \in DOMAIN old \cup DOMAIN parsed |-> IF k \in DOMAIN parsed THEN parsed[k]
                                             ELSE old[k]]

\* self.config = toml.load(a)
LoadedConfig(old, parsed) == parsed

\* reload_config(): the parsed file becomes self.config; when open() or
\* toml.load() raises, self.logger.critical(...) and exit(1)
reload_config ==
    /\ exit_code = -1
    /\ \/ /\ config' = LoadedConfig(config, config_file)
          /\ UNCHANGED <<logged, exit_code>>
       \/ /\ logged' = Append(logged, "critical")
          /\ exit_code' = 1
          /\ UNCHANGED config
    /\ UNCHANGED <<config_file, schema, started, heap, guild_settings, user_settings, db,
                   conn, pc, steps, cog_i, called, ncogs, ready, msg, nmsgs, shards,
                   presence, sdp, button, runs>>

\* a run in which the configuration is edited and reloaded, against empty tables
ReloadInit ==
    /\ Init
    /\ config \in ConfigFiles
    /\ schema.guild_settings = {"guild_id", "prefix"}
    /\ DOMAIN db.guild_settings = {}
    /\ DOMAIN db.user_settings = {}

ReloadNext == Next \/ EditConfigFile \/ reload_config

ReloadSpec == ReloadInit /\ [][ReloadNext]_vars

\* a bot without a database that is connected: start() has run, the platform is
\* ready, no message is being dispatched
Connected ==
    /\ config_file = config
    /\ started = TRUE
    /\ heap = (DefaultGuildRef :> ("prefix" :> config.default_prefix))
              @@ (DefaultUserRef :> EmptyDict)
    /\ guild_settings = EmptyDict
    /\ user_settings = EmptyDict
    /\ schema = [guild_settings |-> {"guild_id", "prefix"},
                 user_settings |-> {"user_id", "locale"}]
    /\ db = [guild_settings |-> EmptyDict, user_settings |-> EmptyDict]
    /\ conn = "none"
    /\ pc = "none"
    /\ steps = <<>>
    /\ cog_i = 0
    /\ called = <<>>
    /\ ncogs = 0
    /\ ready = TRUE
    /\ logged = <<>>
    /\ exit_code = -1
    /\ msg = Idle
    /\ nmsgs = 0
    /\ runs = NoRuns

\* ----------------------------------------------------- set_default_presence
ActivityTypes == {"Watching", "playing"}
Statuses == {"Online", "dnd"}

\* str.lower() on the names a config gives
Lower(s) ==
    CASE s = "Watching" -> "watching"
      [] s = "Online" -> "online"
      [] OTHER -> s

\* the elements of a sequence
Range(l) == {l[n] : n \in 1..Len(l)}

\* the strictly increasing sequences over S: the shard_ids a process may run
RECURSIVE Sorted(_)
Sorted(S) ==
    IF S = {} THEN <<>>
    ELSE LET x == CHOOSE y \in S : \A z \in S : y <= z
         IN  <<x>> \o Sorted(S \ {x})

\* discord.Activity(name=..., type=getattr(discord.ActivityType, ....lower())) and
\* getattr(discord.Status, presence['status'].lower()); shard is NoShard for the
\* name without "(shard i)"
DefaultPresence(p, shard) ==
    [text |-> p.text, shard |-> shard, type |-> Lower(p.activity_type),
     status |-> Lower(p.status)]

\* "if shard_id:" as Python evaluates it: None and 0 are both false
Truthy(shard_id) == shard_id # NoShard /\ shard_id # 0

\* min, max = shard_id, shard_id + 1, or = self.shard_ids[0], self.shard_ids[-1]
ShardRange(shard_id, ids) ==
    IF Truthy(shard_id) THEN [min |-> shard_id, max |-> shard_id + 1]
    ELSE [min |-> ids[1], max |-> ids[Len(ids)]]

\* set_default_presence(shard_id) is called and runs up to its first await; with
\* an empty range it returns at once
SetDefaultPresence ==
    /\ sdp.pc \in {"idle", "done", "raised"}
    /\ \E shard_id \in {NoShard} \cup Range(shards.ids) :
          IF shards.count > 1
          THEN LET r == ShardRange(shard_id, shards.ids)
               IN  sdp' = [pc |-> IF r.min < r.max THEN "sharded" ELSE "done",
                           shard_id |-> shard_id, i |-> r.min, max |-> r.max,
                           changes |-> <<>>]
          ELSE sdp' = [NoCall EXCEPT !.pc = "unsharded", !.shard_id = shard_id]
    /\ UNCHANGED <<settings, shards, presence, button>>

\* await self.change_presence(activity=activity, status=status, shard_id=i) for
\* the i the loop is at: the shard shows the presence, or, i being no shard of
\* this process, self.shards[i] raises KeyError out of the call
ChangeShardPresence ==
    /\ sdp.pc = "sharded"
    /\ LET shown == DefaultPresence(config.presence, sdp.i)
       IN  IF sdp.i \in Range(shards.ids)
           THEN /\ presence' = [presence EXCEPT ![sdp.i] = shown]
                /\ sdp' = [sdp EXCEPT !.pc = IF sdp.i + 1 < sdp.max THEN "sharded"
                                             ELSE "done",
                                      !.i = sdp.i + 1,
                                      !.changes = Append(@, shown)]
           ELSE /\ sdp' = [sdp EXCEPT !.pc = "raised"]
                /\ UNCHANGED presence
    /\ UNCHANGED <<settings, shards, button>>

\* await self.change_presence(activity=activity, status=status): every shard of
\* the process shows the presence
ChangePresence ==
    /\ sdp.pc = "unsharded"
    /\ LET shown == DefaultPresence(config.presence, NoShard)
       IN  /\ presence' = [s \in DOMAIN presence |-> shown]
           /\ sdp' = [sdp EXCEPT !.pc = "done", !.changes = Append(@, shown)]
    /\ UNCHANGED <<settings, shards, button>>

\* a connected bot of up to MaxShards shards, this process running some of them,
\* with a presence configured
PresenceInit ==
    /\ config \in [default_prefix : {"!"}, database_enabled : {FALSE},
                   presence : [text : {"hello"}, activity_type : ActivityTypes,
                               status : Statuses]]
    /\ Connected
    /\ \E count \in 1..MaxShards :
          \E ids \in (SUBSET (0..(count - 1))) \ {{}} :
             /\ shards = [count |-> count, ids |-> Sorted(ids)]
             /\ presence = [s \in ids |-> NoPresence]
    /\ sdp = NoCall
    /\ button = NoButton

PresenceNext == SetDefaultPresence \/ ChangeShardPresence \/ ChangePresence

PresenceSpec == PresenceInit /\ [][PresenceNext]_vars

\* -------------------------------------------------------- add_delete_button
TheMessage == 1                 \* message.id of the message that gets the button
ChannelMessages == {1, 2}       \* the messages channel.purge goes through
ReactingUsers == {1, 2}         \* the IDs of the users who react

\* the delete argument: None, or a list of messages
DeleteArgs ==
    {DeleteNone} \cup [none : {FALSE}, ids : SUBSET ChannelMessages]

\* the (reaction, user) pairs a reaction_add event may carry: whether the reaction
\* is on the message, u.bot, isinstance(u, discord.Member), whether u has roles,
\* whether the emoji is the wastebasket, u.id and
\* u.permissions_in(message.channel).manage_messages
Reactions ==
    [same_message : BOOLEAN, bot : BOOLEAN, member : BOOLEAN, roles : BOOLEAN,
     wastebasket : BOOLEAN, user : ReactingUsers, manage_messages : BOOLEAN]

\* check with a fault: the test "if u.bot is True: return False" is missing
check_bots_too(r, valid_users) ==
    /\ r.same_message
    /\ r.member
    /\ r.roles
    /\ r.wastebasket
    /\ r.user \in valid_users \/ r.manage_messages

\* check(r, u) of add_delete_button
check(r, valid_users) ==
    /\ r.same_message
    /\ ~r.bot
    /\ r.member
    /\ r.roles
    /\ r.wastebasket
    /\ r.user \in valid_users \/ r.manage_messages

\* what the body does before its first await: nothing more in a DM channel
AfterChannelTest(dm) == IF dm THEN "done" ELSE "add_reaction"

\* add_delete_button(message, valid_users, delete=..., wait=...) is called: with
\* wait False it creates the task and returns; otherwise it runs up to its first
\* await (valid_users is the set of the users given, one or a list)
AddDeleteButton ==
    /\ button.pc = "idle"
    /\ \E wait \in BOOLEAN, dm \in BOOLEAN, valid_users \in SUBSET ReactingUsers,
          delete \in DeleteArgs :
          button' = [NoButton EXCEPT !.wait = wait, !.dm = dm,
                                     !.valid_users = valid_users, !.delete = delete,
                                     !.pc = IF wait THEN AfterChannelTest(dm) ELSE "task",
                                     !.returned = ~wait \/ dm]
    /\ UNCHANGED <<settings, shards, presence, sdp>>

\* the task created for wait=False runs: the same coroutine with wait at its
\* default, True
RunButtonTask ==
    /\ button.pc = "task"
    /\ button' = [button EXCEPT !.pc = AfterChannelTest(button.dm)]
    /\ UNCHANGED <<settings, shards, presence, sdp>>

\* await message.add_reaction(wastebasket); a discord.HTTPException is re-raised
AddReaction ==
    /\ button.pc = "add_reaction"
    /\ \/ button' = [button EXCEPT !.pc = "wait_for", !.added = TRUE,
                                    !.own_reaction = TRUE]
       \/ button' = [button EXCEPT !.pc = "raised", !.returned = TRUE]
    /\ UNCHANGED <<settings, shards, presence, sdp>>

\* a reaction_add event while wait_for is pending: wait_for returns on the first
\* event that passes check, the others are ignored
ReactionAdd ==
    /\ button.pc = "wait_for"
    /\ \E r \in Reactions :
          button' = [button EXCEPT !.seen = r,
                                   !.accepted = check(r, button.valid_users),
                                   !.pc = IF check(r, button.valid_users) THEN "purge"
                                          ELSE "wait_for"]
    /\ UNCHANGED <<settings, shards, presence, sdp>>

\* except asyncio.TimeoutError: message.remove_reaction(...) is awaited
Timeout ==
    /\ button.pc = "wait_for"
    /\ button' = [button EXCEPT !.pc = "remove_reaction", !.timed_out = TRUE]
    /\ UNCHANGED <<settings, shards, presence, sdp>>

\* return await message.remove_reaction(wastebasket, self.user), or
\* except Exception: return
RemoveReaction ==
    /\ button.pc = "remove_reaction"
    /\ \/ button' = [button EXCEPT !.pc = "done", !.own_reaction = FALSE,
                                    !.returned = TRUE]
       \/ button' = [button EXCEPT !.pc = "done", !.remove_failed = TRUE,
                                    !.returned = TRUE]
    /\ UNCHANGED <<settings, shards, presence, sdp>>

\* if delete is None: delete = [message]
ToDelete(delete) == IF delete.none THEN {TheMessage} ELSE delete.ids

\* await message.channel.purge(check=lambda m: m.id in [i.id for i in delete],
\* bulk=bulk), or except Exception: return (bulk only selects how purge deletes)
Purge ==
    /\ button.pc = "purge"
    /\ \/ button' = [button EXCEPT !.pc = "done", !.returned = TRUE,
                                    !.deleted = ToDelete(button.delete)
                                                   \cap ChannelMessages]
       \/ button' = [button EXCEPT !.pc = "done", !.returned = TRUE]
    /\ UNCHANGED <<settings, shards, presence, sdp>>

\* a connected bot on which add_delete_button is called once
ButtonInit ==
    /\ config \in [default_prefix : {"!"}, database_enabled : {FALSE}]
    /\ Connected
    /\ Unsharded
    /\ button = NoButton

ButtonNext ==
    \/ AddDeleteButton
    \/ RunButtonTask
    \/ AddReaction
    \/ ReactionAdd
    \/ Timeout
    \/ RemoveReaction
    \/ Purge

ButtonSpec == ButtonInit /\ [][ButtonNext]_vars

\* a bot whose config['default_prefix'] is a list: the state after __init__
\* (the table has no prefix column, the prefix lists come from the config)
ListInit ==
    /\ config \in [default_prefix : {ConfigPrefixRef}, database_enabled : BOOLEAN]
    /\ config_file = config
    /\ started = FALSE
    /\ \E p \in ListPrefixes :
          heap = (DefaultGuildRef :> ("prefix" :> config.default_prefix))
                 @@ (DefaultUserRef :> EmptyDict)
                 @@ (ConfigPrefixRef :> <<p>>)
    /\ guild_settings = EmptyDict
    /\ user_settings = EmptyDict
    /\ schema = [guild_settings |-> {"guild_id", "locale"},
                 user_settings |-> {"user_id", "locale"}]
    /\ db \in [guild_settings : Tables("guild_id", schema.guild_settings),
               user_settings : Tables("user_id", schema.user_settings)]
    /\ conn = "none"
    /\ pc = "none"
    /\ steps = <<>>
    /\ cog_i = 0
    /\ called = <<>>
    /\ ncogs = 0
    /\ ready = FALSE
    /\ logged = <<>>
    /\ exit_code = -1
    /\ msg = Idle
    /\ nmsgs = 0
    /\ Unsharded
    /\ button = NoButton
    /\ runs = NoRuns

ListSpec == ListInit /\ [][Next]_vars

\* a bot with a list-valued default_prefix and the database enabled, on which
\* startup() is awaited a second time once the startup task has finished
RehydrateInit == ListInit /\ config.database_enabled

RehydrateNext == Next \/ startup

RehydrateSpec == RehydrateInit /\ [][RehydrateNext]_vars

\* a run against a guild_settings table that holds no rows when start() is called
EmptyGuildTableInit == Init /\ DOMAIN db.guild_settings = {}

EmptyGuildTableSpec == EmptyGuildTableInit /\ [][Next]_vars

\* ------------------------------------------------------------------ claims
Did(step) == \E n \in 1..Len(steps) : steps[n] = step
GuildEntry(i) == heap[guild_settings[i]]
UserEntry(i) == heap[user_settings[i]]
IsPrefixOf(a, b) == Len(a) <= Len(b) /\ SubSeq(b, 1, Len(a)) = a

\* C1: once _startup has hydrated a table, entity ID 0 is not a key of that
\* table's per-entity cache.
C1_SentinelNeverCached ==
    /\ Did("guild_rows") => 0 \notin DOMAIN guild_settings
    /\ Did("user_rows") => 0 \notin DOMAIN user_settings

C3_DatabaseErrorIsCritical ==
    (exit_code # -1 /\ ~Did("user_rows")) =>
        (exit_code = 1 /\ logged = <<"critical">>)

\* C4: in every terminal state of the startup task, a connection that was
\* acquired has been disconnected.
C4_ConnectionReleased ==
    (pc \in {"done", "exited"} /\ conn # "none") => conn = "closed"

\* C5: a failure while emitting the command counter does not make invoke raise.
C5_EmissionFailureSwallowed ==
    msg.pc # "raised"

\* C6: once a table is hydrated, every key of its Default mapping is a key of
\* every entry of its cache.
C6_DefaultKeysInEveryEntry ==
    /\ Did("guild_rows") =>
          \A i \in DOMAIN guild_settings :
             DOMAIN DEFAULT_GUILD_SETTINGS \subseteq DOMAIN GuildEntry(i)
    /\ Did("user_rows") =>
          \A i \in DOMAIN user_settings :
             DOMAIN DEFAULT_USER_SETTINGS \subseteq DOMAIN UserEntry(i)

\* a step that only reads an entry: get_prefix on a new message, or a get command
ReadStep ==
    \/ nmsgs' # nmsgs
    \/ msg.pc = "command" /\ msg'.pc = "idle" /\ msg.command \in {"get_guild", "get_user"}

\* a step in which a command writes a setting of its guild or author
WriteStep(command) ==
    /\ msg.pc = "command" /\ msg'.pc = "idle" /\ msg.command = command
    /\ command = "set_guild" => msg.guild # NoGuild

\* C7: a read of an absent ID stores an entry equal to the current Default
\* mapping; a read of a present ID leaves the stored entry as it is, whatever
\* was written to it; a write goes to the stored entry of its ID and changes
\* the written key only; and a change of the Default mapping changes no stored
\* entry.
C7_LazyEntryStored ==
    [][/\ ReadStep =>
            /\ \A i \in DOMAIN guild_settings' \ DOMAIN guild_settings :
                  GuildEntry(i)' = DEFAULT_GUILD_SETTINGS
            /\ \A i \in DOMAIN user_settings' \ DOMAIN user_settings :
                  UserEntry(i)' = DEFAULT_USER_SETTINGS
            /\ \A i \in DOMAIN guild_settings :
                  /\ i \in DOMAIN guild_settings'
                  /\ guild_settings'[i] = guild_settings[i]
                  /\ GuildEntry(i)' = GuildEntry(i)
            /\ \A i \in DOMAIN user_settings :
                  /\ i \in DOMAIN user_settings'
                  /\ user_settings'[i] = user_settings[i]
                  /\ UserEntry(i)' = UserEntry(i)
       /\ WriteStep("set_guild") =>
            /\ msg.guild \in DOMAIN guild_settings'
            /\ msg.guild \in DOMAIN guild_settings =>
                  /\ guild_settings'[msg.guild] = guild_settings[msg.guild]
                  /\ \A k \in DOMAIN GuildEntry(msg.guild) \ {"prefix"} :
                        heap'[guild_settings[msg.guild]][k] = GuildEntry(msg.guild)[k]
       /\ WriteStep("set_user") =>
            /\ msg.user \in DOMAIN user_settings'
            /\ msg.user \in DOMAIN user_settings =>
                  /\ user_settings'[msg.user] = user_settings[msg.user]
                  /\ \A k \in DOMAIN UserEntry(msg.user) \ {"locale"} :
                        heap'[user_settings[msg.user]][k] = UserEntry(msg.user)[k]
       /\ DEFAULT_GUILD_SETTINGS' # DEFAULT_GUILD_SETTINGS =>
            \A i \in DOMAIN guild_settings :
               i \in DOMAIN guild_settings' /\ GuildEntry(i)' = GuildEntry(i)
       /\ DEFAULT_USER_SETTINGS' # DEFAULT_USER_SETTINGS =>
            \A i \in DOMAIN user_settings :
               i \in DOMAIN user_settings' /\ UserEntry(i)' = UserEntry(i)
      ]_vars

\* guild 2 was materialized and written to before the Default mapping was
\* hydrated, and still holds what was written
C7_Witness ==
    /\ Did("guild_defaults")
    /\ 2 \in DOMAIN guild_settings
    /\ DOMAIN GuildEntry(2) = {"prefix"}
    /\ GuildEntry(2)["prefix"] # config.default_prefix
    /\ DOMAIN DEFAULT_GUILD_SETTINGS # {"prefix"}

\* the sentinel row a Default hydration step has read or inserted
SentinelRow(table) == db'[table][0]

\* C8: hydrating a Default mapping from the sentinel row gives it the row's
\* value at every key of the row it did not contain, and no step ever changes
\* the value of a key a Default mapping contains.
C8_DefaultsNeverOverwritten ==
    [][/\ steps' = Append(steps, "guild_defaults") =>
            /\ DOMAIN DEFAULT_GUILD_SETTINGS' =
                  DOMAIN DEFAULT_GUILD_SETTINGS \cup DOMAIN SentinelRow("guild_settings")
            /\ \A k \in DOMAIN SentinelRow("guild_settings") \ DOMAIN DEFAULT_GUILD_SETTINGS :
                  DEFAULT_GUILD_SETTINGS'[k] = SentinelRow("guild_settings")[k]
       /\ steps' = Append(steps, "user_defaults") =>
            /\ DOMAIN DEFAULT_USER_SETTINGS' =
                  DOMAIN DEFAULT_USER_SETTINGS \cup DOMAIN SentinelRow("user_settings")
            /\ \A k \in DOMAIN SentinelRow("user_settings") \ DOMAIN DEFAULT_USER_SETTINGS :
                  DEFAULT_USER_SETTINGS'[k] = SentinelRow("user_settings")[k]
       /\ \A k \in DOMAIN DEFAULT_GUILD_SETTINGS :
             k \in DOMAIN DEFAULT_GUILD_SETTINGS'
             /\ DEFAULT_GUILD_SETTINGS'[k] = DEFAULT_GUILD_SETTINGS[k]
       /\ \A k \in DOMAIN DEFAULT_USER_SETTINGS :
             k \in DOMAIN DEFAULT_USER_SETTINGS'
             /\ DEFAULT_USER_SETTINGS'[k] = DEFAULT_USER_SETTINGS[k]
      ]_vars

\* the guild Defaults were hydrated from a sentinel row whose prefix differs from
\* the configured one: the row's guild_id was added, the prefix kept
C8_Witness ==
    /\ Did("guild_defaults")
    /\ "prefix" \in schema.guild_settings
    /\ db.guild_settings[0]["prefix"] # config.default_prefix
    /\ DEFAULT_GUILD_SETTINGS["prefix"] = config.default_prefix
    /\ DEFAULT_GUILD_SETTINGS["guild_id"] = 0

\* what C9 says of one table's hydration step: old and new are the cache and
\* heap before and after, rows the table, default the Default mapping
RowsHydrated(oldc, oldh, newc, newh, rows, default) ==
    /\ \A i \in DOMAIN rows :
          /\ i \in DOMAIN newc
          /\ \A c \in DOMAIN rows[i] : newh[newc[i]][c] = rows[i][c]
          /\ DOMAIN newh[newc[i]] =
                DOMAIN rows[i] \cup (IF i \in DOMAIN oldc THEN DOMAIN oldh[oldc[i]]
                                     ELSE DOMAIN default)
          /\ \A k \in DOMAIN newh[newc[i]] \ DOMAIN rows[i] :
                newh[newc[i]][k] = IF i \in DOMAIN oldc THEN oldh[oldc[i]][k]
                                   ELSE default[k]
    /\ \A i \in DOMAIN oldc \ DOMAIN rows :
          i \in DOMAIN newc /\ newh[newc[i]] = oldh[oldc[i]]
    /\ DOMAIN newc = DOMAIN oldc \cup DOMAIN rows

\* C9: the hydration of a table leaves, for every row r and column c, r[c] at c
\* in the entry of r's ID; every other key of that entry, the Default keys that
\* are no column of r among them, keeps the value the entry had, or for an entry
\* hydration creates the Default value; no key is cleared and entries without a
\* row are left alone.
C9_RowsOverwriteOnlyTheirColumns ==
    [][/\ steps' = Append(steps, "guild_rows") =>
            RowsHydrated(guild_settings, heap, guild_settings', heap',
                         db.guild_settings, DEFAULT_GUILD_SETTINGS)
       /\ steps' = Append(steps, "user_rows") =>
            RowsHydrated(user_settings, heap, user_settings', heap',
                         db.user_settings, DEFAULT_USER_SETTINGS)
      ]_vars

\* guild 1 has a row in a table without a prefix column: after hydration its
\* entry holds the row's columns and the Default prefix
C9_Witness ==
    /\ Did("guild_rows")
    /\ "prefix" \notin schema.guild_settings
    /\ 1 \in DOMAIN db.guild_settings
    /\ 1 \in DOMAIN guild_settings
    /\ GuildEntry(1)["prefix"] = config.default_prefix
    /\ GuildEntry(1)["locale"] = db.guild_settings[1]["locale"]
    /\ GuildEntry(1)["guild_id"] = 1

\* the steps of a complete _startup with n extension callbacks
StartupOrder(n) ==
    <<"clear", "get_connection", "guild_defaults", "guild_rows",
      "user_defaults", "user_rows">>
    \o [k \in 1..n |-> "cache_setup"]
    \o <<"wait_until_ready", "disconnect">>

\* C10: the steps _startup has executed are always an initial part of: clear,
\* acquire, guild Defaults, guild rows, user Defaults, user rows, the
\* callbacks, ready wait, release; a completed _startup has executed them all;
\* rows are in a cache only once the Defaults of the table hold every column;
\* the connection is open from its acquisition to its release.
C10_StartupOrder ==
    /\ \E n \in 0..MaxCogs : IsPrefixOf(steps, StartupOrder(n))
    /\ pc = "done" => steps = StartupOrder(ncogs)
    /\ Did("guild_rows") => schema.guild_settings \subseteq DOMAIN DEFAULT_GUILD_SETTINGS
    /\ Did("user_rows") => schema.user_settings \subseteq DOMAIN DEFAULT_USER_SETTINGS
    /\ (Did("get_connection") /\ pc \notin {"done", "exited"}) => conn = "open"
    /\ pc = "done" => (conn = "closed" /\ ready)

\* a completed _startup that ran two extension callbacks
C10_Witness ==
    /\ pc = "done"
    /\ ncogs = 2
    /\ cog_i = 2
    /\ Len(steps) = 10

\* C11: when the guild_settings table holds no rows at startup, the sentinel row
\* (guild_id 0) is inserted before the Default mapping is hydrated, the key set
\* of DEFAULT_GUILD_SETTINGS afterwards is exactly the column set of that row,
\* and the guild cache stays empty until the first lazy read; when the sentinel
\* row already exists, no insert is issued.
C11_EmptyTableStartup ==
    [][/\ (pc = "guild_default_select" /\ 0 \in DOMAIN db.guild_settings)
              => (db' = db /\ pc' # "guild_default_insert")
       /\ (DOMAIN db.guild_settings = {} /\ Len(steps') > Len(steps))
              => /\ steps' = Append(steps, "guild_defaults")
                     => /\ DOMAIN db'.guild_settings = {0}
                        /\ db'.guild_settings[0]["guild_id"] = 0
                 /\ steps' # Append(steps, "guild_rows")
       /\ (Did("guild_defaults") /\ pc # "exited")
              => DOMAIN DEFAULT_GUILD_SETTINGS = DOMAIN db.guild_settings[0]
       /\ (/\ guild_settings = EmptyDict
           /\ msg.pc # "command" /\ nmsgs' = nmsgs)
              => guild_settings' = EmptyDict]_vars

\* the entities of a cache whose entry a step created or changed, list objects
\* compared by their elements
ChangedEntries(cache, newcache) ==
    {i \in DOMAIN newcache :
        i \notin DOMAIN cache \/ Deep(heap', newcache[i]) # Deep(heap, cache[i])}

\* C12: mutating the settings entry of one entity never changes the Default
\* mapping or the entry of any other entity, for every sequence of lazy reads,
\* hydrations and writes, also when a value is a mutable container (a list-valued
\* prefix): a step of a message or command changes at most one entry, a row
\* hydration changes only the entries of the table's rows, every other entry
\* stays in the cache as it was, and while an entry changes both Default
\* mappings keep their contents.
C12_EntriesIndependent ==
    [][steps' # Append(steps, "clear")
       => LET guilds == ChangedEntries(guild_settings, guild_settings')
              users == ChangedEntries(user_settings, user_settings')
          IN  /\ DOMAIN guild_settings \subseteq DOMAIN guild_settings'
              /\ DOMAIN user_settings \subseteq DOMAIN user_settings'
              /\ (guilds # {} \/ users # {})
                    => /\ Deep(heap', DefaultGuildRef) = Deep(heap, DefaultGuildRef)
                       /\ Deep(heap', DefaultUserRef) = Deep(heap, DefaultUserRef)
              /\ (msg' # msg \/ nmsgs' # nmsgs)
                    => Cardinality(guilds) + Cardinality(users) <= 1
              /\ steps' = Append(steps, "guild_rows")
                    => guilds \subseteq DOMAIN db.guild_settings /\ users = {}
              /\ steps' = Append(steps, "user_rows")
                    => users \subseteq DOMAIN db.user_settings /\ guilds = {}
              /\ (steps' = steps /\ msg' = msg /\ nmsgs' = nmsgs)
                    => guilds = {} /\ users = {}]_vars

\* a guild's own prefix list was extended in place while the Default's list and
\* the list of a hydrated guild kept their single element
C12_Witness ==
    /\ ListMode(heap)
    /\ {1, 2} \subseteq DOMAIN guild_settings
    /\ Len(heap[GuildEntry(2)["prefix"]]) > 1
    /\ Len(heap[GuildEntry(1)["prefix"]]) = 1
    /\ Len(heap[DEFAULT_GUILD_SETTINGS["prefix"]]) = 1
    /\ GuildEntry(1)["guild_id"] = 1

\* C13: reload_config replaces the whole configuration mapping with the newly
\* parsed file on success; when the file is missing or does not parse it logs at
\* critical severity and terminates the process, so that no execution continues
\* with the stale mapping: a changed config is exactly the parsed file, a failed
\* reload leaves a critical entry and exit code 1, and an exited process takes
\* no step.
C13_ReloadReplacesOrExits ==
    [][/\ exit_code = -1
       /\ config' # config
             => config' = config_file /\ exit_code' = -1 /\ logged' = logged
       /\ (exit_code' = 1 /\ pc' = pc)
             => logged' = Append(logged, "critical") /\ config' = config]_vars

\* a reload replaced the mapping __init__ had read (the Default prefix still is
\* the first one), the file was edited again and the next reload failed
C13_Witness ==
    /\ config.default_prefix # DEFAULT_GUILD_SETTINGS["prefix"]
    /\ config_file # config
    /\ exit_code = 1 /\ pc # "exited"
    /\ logged # <<>> /\ logged[Len(logged)] = "critical"

\* the extensions 1..n in registration order
Registered(n) == [k \in 1..n |-> k]

\* C14: during startup the cache_setup callback of each registered extension is
\* awaited exactly once, in registration order, after both tables were hydrated
\* and while the database connection is open; when a callback raises, no later
\* callback is awaited and startup does not go on to wait for the platform.
C14_CallbacksOnceInOrder ==
    [][/\ called' = Registered(Len(called'))
       /\ Len(called') <= ncogs'
       /\ called' # called
             => /\ Did("guild_rows") /\ Did("user_rows")
                /\ conn = "open" /\ conn' = "open"
                /\ Len(called') = Len(called) + 1
       /\ steps' = Append(steps, "wait_until_ready")
             => called = Registered(ncogs) /\ Did("user_rows")
       /\ (pc = "cache_setup" /\ exit_code' = 1)
             => pc' = "exited" /\ called' = called /\ steps' = steps
       /\ pc = "exited" => called' = called /\ steps' = steps /\ pc' = pc]_vars

\* startup completed after every one of two or more callbacks was awaited
C14_Witness ==
    /\ pc = "done"
    /\ ncogs >= 2
    /\ called = Registered(ncogs)

\* C15: startup releases its database connection only after the platform is
\* ready: it never disconnects or completes while the platform is not ready,
\* and, every step of the task being resumed and the platform getting ready, a
\* startup task in which no database operation and no callback fails eventually
\* terminates with the connection released (one that fails has exited).
C15_ReleaseAfterReady ==
    /\ []((conn = "closed" \/ pc \in {"disconnect", "done"}) => ready)
    /\ [](pc = "done" => conn = "closed")
    /\ (pc = "created") ~> ((pc = "done" /\ conn = "closed" /\ ready) \/ pc = "exited")

\* the task completed, having waited: the platform got ready only after the last
\* callback had returned and the task was at wait_until_ready
C15_Witness ==
    /\ pc = "done" /\ conn = "closed" /\ ready
    /\ ncogs >= 1
    /\ nmsgs = 0

\* C16: with config['database']['enabled'] false, start never creates the startup
\* task: no connection is acquired, the caches are never cleared or hydrated in
\* bulk, the Default mappings never change (a list they hold keeps its elements),
\* and cache entries arise only from lazy reads (one entry per step of a message
\* or command, holding the Default's keys); with it true, the call of start creates exactly one startup task,
\* before the platform start is awaited.
C16_StartupTaskOnlyWhenEnabled ==
    [][/\ ~config.database_enabled
             => /\ pc' = "none" /\ conn' = "none" /\ steps' = <<>>
                /\ Deep(heap', DefaultGuildRef) = Deep(heap, DefaultGuildRef)
                /\ Deep(heap', DefaultUserRef) = Deep(heap, DefaultUserRef)
                /\ DOMAIN guild_settings \subseteq DOMAIN guild_settings'
                /\ DOMAIN user_settings \subseteq DOMAIN user_settings'
                /\ LET guilds == DOMAIN guild_settings' \ DOMAIN guild_settings
                       users == DOMAIN user_settings' \ DOMAIN user_settings
                   IN  /\ (guilds # {} \/ users # {}) => (msg' # msg \/ nmsgs' # nmsgs)
                       /\ Cardinality(guilds) + Cardinality(users) <= 1
                       /\ \A g \in guilds :
                             DOMAIN heap'[guild_settings'[g]]
                                = DOMAIN DEFAULT_GUILD_SETTINGS
                       /\ \A u \in users :
                             DOMAIN heap'[user_settings'[u]] \subseteq {"locale"}
       /\ (config.database_enabled /\ ~started /\ started')
             => pc' = "created" /\ ~ready /\ ~ready' /\ steps' = <<>>
       /\ pc' = "created" => (pc = "created" \/ (~started /\ started'))]_vars

\* a message or command read the entry of guild i while the table's row of i
\* says something else for column c, and the rows are not hydrated yet
StaleRead(i, c) ==
    /\ pc \notin {"none", "exited"}
    /\ ~Did("guild_rows")
    /\ i \in DOMAIN guild_settings
    /\ i \in DOMAIN db.guild_settings
    /\ c \in DOMAIN GuildEntry(i) \cap DOMAIN db.guild_settings[i]
    /\ GuildEntry(i)[c] # db.guild_settings[i][c]

\* C17: the startup task runs concurrently with dispatch, so a command handled
\* before the task finished can read, for an entity that has a row, a value that
\* differs from the row's (a default-materialized entry); that value is
\* overwritten once the table is hydrated: the hydration step leaves the row's
\* value in every entry that differed, and a run in which the task is resumed
\* gets from every such read to the hydrated entry, or to the exit a failed
\* database operation causes.
C17_StaleReadOverwritten ==
    /\ [][steps' = Append(steps, "guild_rows")
             => \A i \in DOMAIN db.guild_settings :
                   /\ i \in DOMAIN guild_settings'
                   /\ \A c \in DOMAIN db.guild_settings[i] :
                         heap'[guild_settings'[i]][c] = db.guild_settings[i][c]]_vars
    /\ \A i \in RowIds \cap GuildIds, c \in {"prefix"} :
          StaleRead(i, c)
             ~> (\/ pc = "exited"
                 \/ /\ Did("guild_rows")
                    /\ i \in DOMAIN guild_settings \cap DOMAIN db.guild_settings
                    /\ c \in DOMAIN db.guild_settings[i]
                    /\ GuildEntry(i)[c] = db.guild_settings[i][c])

\* a message of guild 1 was dispatched and its command has run while the task
\* was about to select the rows: the entry read holds the default prefix, the
\* row of guild 1 another one
C17_Witness ==
    /\ pc = "guild_rows"
    /\ nmsgs = 1 /\ msg = Idle
    /\ StaleRead(1, "prefix")
    /\ GuildEntry(1)["prefix"] = config.default_prefix

\* the rows of a table as the cache shows them: an entry carries its own ID
\* under the table's ID column only when a row was assigned into it
RowApplied(cache, idcol, i) ==
    /\ i \in DOMAIN cache
    /\ idcol \in DOMAIN heap[cache[i]]
    /\ heap[cache[i]][idcol] = i

\* an entry into which a row was assigned holds every column of that row, the
\* columns other than the one that commands write at the row's values
WholeRow(cache, table, idcol, written, i) ==
    RowApplied(cache, idcol, i)
       => /\ i \in DOMAIN table
          /\ DOMAIN table[i] \subseteq DOMAIN heap[cache[i]]
          /\ \A c \in DOMAIN table[i] \ {written} : heap[cache[i]][c] = table[i][c]

\* C18: no cache mutation suspends in the middle: a lazy materialization and the
\* hydration of all rows of one table each happen without a suspension point, so
\* what a concurrently dispatched command can observe is, for each table, either
\* none of the rows of the bulk select applied or all of them, and never an entry
\* without its dictionary or holding only part of one row's columns.
C18_NoPartialHydration ==
    /\ \A i \in DOMAIN guild_settings :
          /\ guild_settings[i] \in DOMAIN heap
          /\ "prefix" \in DOMAIN GuildEntry(i)
          /\ WholeRow(guild_settings, db.guild_settings, "guild_id", "prefix", i)
    /\ \A i \in DOMAIN user_settings :
          /\ user_settings[i] \in DOMAIN heap
          /\ WholeRow(user_settings, db.user_settings, "user_id", "locale", i)
    /\ IF Did("guild_rows")
       THEN \A i \in DOMAIN db.guild_settings : RowApplied(guild_settings, "guild_id", i)
       ELSE \A i \in GuildIds \cup RowIds : ~RowApplied(guild_settings, "guild_id", i)
    /\ IF Did("user_rows")
       THEN \A i \in DOMAIN db.user_settings : RowApplied(user_settings, "user_id", i)
       ELSE \A i \in UserIds \cup RowIds : ~RowApplied(user_settings, "user_id", i)

\* a command is being handled between the two row loops: both rows of the guild
\* table are applied, the row of the user table is not
C18_Witness ==
    /\ msg.pc = "command"
    /\ Did("guild_rows") /\ ~Did("user_rows")
    /\ DOMAIN db.guild_settings = {0, 1}
    /\ 1 \in DOMAIN db.user_settings
    /\ RowApplied(guild_settings, "guild_id", 0)
    /\ RowApplied(guild_settings, "guild_id", 1)
    /\ 1 \notin DOMAIN user_settings

\* the shards whose presence the call of set_default_presence changed
ChangedShards == {sdp.changes[n].shard : n \in 1..Len(sdp.changes)}

\* C19: on a bot with more than one shard, set_default_presence changes the
\* presence of exactly the shard given by shard_id when one is passed (for every
\* valid shard ID, 0 included), and of every shard in shard_ids when none is
\* passed; each change uses the text, activity type and status of
\* config['presence'].
C19_PresencePerShard ==
    (shards.count > 1 /\ sdp.pc \in {"done", "raised"})
       => /\ sdp.pc = "done"
          /\ ChangedShards = IF sdp.shard_id # NoShard THEN {sdp.shard_id}
                             ELSE Range(shards.ids)
          /\ \A n \in 1..Len(sdp.changes) :
                /\ sdp.changes[n] = DefaultPresence(config.presence, sdp.changes[n].shard)
                /\ presence[sdp.changes[n].shard] = sdp.changes[n]

\* C20: add_delete_button purges messages only after a wastebasket reaction on
\* that very message by a non-bot guild member who is in valid_users or has
\* manage_messages in the channel; when no such reaction arrives before the
\* timeout, no message is deleted and the bot's own reaction is removed (a
\* failure of the removal is swallowed); in a DM channel nothing is added or
\* deleted; with wait=False the call returns at once and the same logic runs as
\* a background task.
C20_DeleteButton ==
    /\ (button.accepted \/ button.pc = "purge" \/ button.deleted # NoMessages)
          => /\ button.accepted /\ ~button.timed_out
             /\ button.seen.same_message /\ button.seen.wastebasket
             /\ ~button.seen.bot /\ button.seen.member
             /\ button.seen.user \in button.valid_users \/ button.seen.manage_messages
    /\ button.timed_out
          => /\ button.deleted = NoMessages
             /\ button.pc \in {"remove_reaction", "done"}
             /\ button.pc = "done" => (button.own_reaction <=> button.remove_failed)
    /\ button.dm
          => /\ ~button.added /\ button.deleted = NoMessages
             /\ button.pc \in {"task", "done"}
    /\ (button.pc # "idle" /\ ~button.wait) => button.returned
    /\ (button.wait /\ button.pc \in {"add_reaction", "wait_for", "remove_reaction", "purge"})
          => ~button.returned
    /\ button.deleted \subseteq ToDelete(button.delete)

\* the background task of a call with wait=False purged the message after a
\* member outside valid_users, holding manage_messages, reacted
C20_Witness ==
    /\ ~button.wait
    /\ button.pc = "done"
    /\ button.deleted = {TheMessage}
    /\ button.seen.user \notin button.valid_users

\* the value config['default_prefix'] holds: the str, or the list's elements
ConfigPrefix(h) == IF ListMode(h) THEN h[ConfigPrefixRef] ELSE config.default_prefix

\* the step is get_prefix(bot, message) for a message of guild g (NoGuild: a DM)
ResolvesPrefix(g) ==
    /\ nmsgs' = nmsgs + 1
    /\ guild_settings' = get_prefix(guild_settings, heap, g).cache
    /\ heap' = get_prefix(guild_settings, heap, g).heap

\* C21: get_prefix never changes a stored prefix value: over the step of a
\* message, config['default_prefix'] and guild_settings[g]['prefix'] of every
\* guild g keep their values (their elements, when they are lists), and a second
\* call for the same message returns the prefix list the first call returned.
C21_GetPrefixChangesNothing ==
    [][\A m \in GuildIds \cup {NoGuild} :
          ResolvesPrefix(m)
             => /\ ConfigPrefix(heap') = ConfigPrefix(heap)
                /\ \A g \in DOMAIN guild_settings :
                      "prefix" \in DOMAIN heap[guild_settings[g]]
                         => /\ g \in DOMAIN guild_settings'
                            /\ Deep(heap', guild_settings'[g])["prefix"]
                                  = Deep(heap, guild_settings[g])["prefix"]
                /\ prefix_list(guild_settings', heap', m)
                      = prefix_list(guild_settings, heap, m)]_vars

\* C22: re-hydration is idempotent against an unchanged database: when startup()
\* has run a second time (messages and commands only between the two runs, the
\* tables as the first run left them), both caches and both Default mappings
\* say what they said when the first run returned; the clear at the head of a
\* run empties both caches, whatever was materialized or written before, and
\* leaves the Default mappings as they are.
C22_RehydrationIdempotent ==
    [][/\ (runs.n = 1 /\ runs'.n = 2 /\ runs'.quiet)
             => /\ DeepCache(heap', guild_settings') = runs.guild_settings
                /\ DeepCache(heap', user_settings') = runs.user_settings
                /\ Deep(heap', DefaultGuildRef) = runs.default_guild
                /\ Deep(heap', DefaultUserRef) = runs.default_user
       /\ (pc = "created" /\ pc' # pc)
             => /\ guild_settings' = EmptyDict /\ user_settings' = EmptyDict
                /\ Deep(heap', DefaultGuildRef) = Deep(heap, DefaultGuildRef)
                /\ Deep(heap', DefaultUserRef) = Deep(heap, DefaultUserRef)]_vars
====
